---- MODULE Spec2Model ----
(***************************************************************************)
(* Model of package hfprop (sa6mwa/hfprop): the GIRO/DIDB response decoder *)
(* GetGiroData, the process-wide MUF distance setting, the "latest hmF2"   *)
(* helpers DistanceByTOA / LatestTOA and the single-hop geometry TOA /     *)
(* Distance.                                                                *)
(*                                                                         *)
(* float64 values are modelled in binary fixed point: angles and ratios    *)
(* carry 24 fractional bits, lengths in km carry 12 fractional bits.       *)
(* A response body is a sequence of lines, a line is a sequence of lexical *)
(* chunks (strings); the chunk " " stands for a run of white space.        *)
(***************************************************************************)
EXTENDS Integers, Sequences, FiniteSets, TLC

VARIABLES
  DMUF,      \* package variable DMUF (the decimal string, by its value)
  resp,      \* what the service answers to a request: status and body
  op,        \* the function called last
  req,       \* query parameters of the request sent by the last call
  gds, err,  \* results of the last GetGiroData
  decoded,   \* whether the last GetGiroData ran its scanner loop
  toa, hmf2, distance, pc,  \* arguments and loop variable of Distance / TOA
  out        \* results of the last DistanceByTOA, LatestTOA, Distance or TOA

vars == <<DMUF, resp, op, req, gds, err, decoded, toa, hmf2, distance, pc, out>>

(***************************************************************************)
(* Fixed-point arithmetic standing for float64 arithmetic.                 *)
(***************************************************************************)
FxBits == 24
FxOne == 2^24
Limb == 2^12
KmOne == 2^12

\* x * y for two 24-bit-fraction operands x, y >= 0, computed limb-wise so
\* that no intermediate product leaves 31 bits.
Mul(x, y) ==
  LET xh == x \div Limb
      xl == x % Limb
      yh == y \div Limb
      yl == y % Limb
  IN  xh * yh + ((xh * yl + xl * yh) \div Limb) + ((xl * yl) \div FxOne)

\* n / d as a k-bit fraction, for 0 <= n < d (binary long division).
RECURSIVE FracDiv(_, _, _)
FracDiv(n, d, k) ==
  IF k = 0 THEN 0
  ELSE LET t == 2 * n
       IN  IF t >= d THEN 2^(k - 1) + FracDiv(t - d, d, k - 1)
           ELSE FracDiv(t, d, k - 1)

Div(n, d) == FracDiv(n, d, FxBits)

\* math.Pi with 24 fractional bits.
Pi == 52707179

\* 180 / math.Pi with 24 fractional bits.
DegPerRad == 961263669

\* math.Atan(0.5) with 24 fractional bits, used for argument reduction.
AtanHalf == 7778716

SeriesTerms == 8

\* math.Sin: Taylor series x - x^3/3! + x^5/5! - ...
RECURSIVE SinSeries(_, _, _, _)
SinSeries(t, x2, k, s) ==
  IF k > SeriesTerms THEN s
  ELSE LET t2 == Mul(t, x2) \div ((2 * k) * (2 * k + 1))
       IN  SinSeries(t2, x2, k + 1, IF k % 2 = 1 THEN s - t2 ELSE s + t2)

Sin(x) == SinSeries(x, Mul(x, x), 1, x)

\* math.Cos: Taylor series 1 - x^2/2! + x^4/4! - ...
RECURSIVE CosSeries(_, _, _, _)
CosSeries(t, x2, k, s) ==
  IF k > SeriesTerms THEN s
  ELSE LET t2 == Mul(t, x2) \div ((2 * k - 1) * (2 * k))
       IN  CosSeries(t2, x2, k + 1, IF k % 2 = 1 THEN s - t2 ELSE s + t2)

Cos(x) == CosSeries(FxOne, Mul(x, x), 1, FxOne)

\* atan y for a small argument 0 <= y <= 1/4: y - y^3/3 + y^5/5 - ...
RECURSIVE AtanSeries(_, _, _, _)
AtanSeries(t, y2, k, s) ==
  IF k >= SeriesTerms THEN s
  ELSE LET t2 == Mul(t, y2)
           q  == t2 \div (2 * k + 1)
       IN  AtanSeries(t2, y2, k + 1, IF k % 2 = 1 THEN s - q ELSE s + q)

AtanSmall(y) == AtanSeries(y, Mul(y, y), 1, y)

\* atan(n/d) for 0 <= n <= d, d > 0, reduced around 0, 1/2 and 1 with
\* atan x = atan c + atan((x - c) / (1 + x c)).
Atan01(n, d) ==
  IF 4 * n <= d THEN AtanSmall(Div(n, d))
  ELSE IF 4 * n <= 3 * d
       THEN IF 2 * n >= d
            THEN AtanHalf + AtanSmall(Div(2 * n - d, 2 * d + n))
            ELSE AtanHalf - AtanSmall(Div(d - 2 * n, 2 * d + n))
       ELSE (Pi \div 4) - AtanSmall(Div(d - n, d + n))

\* math.Atan(n / d) for n >= 0, d > 0.
Atan(n, d) ==
  IF n <= d THEN Atan01(n, d) ELSE (Pi \div 2) - Atan01(d, n)

(***************************************************************************)
(* Geometry: TOA and the bound of Distance's scan.                         *)
(***************************************************************************)
\* 40000 / 2 / math.Pi in km with 12 fractional bits.
earthRadius == 26075946

\* math.Round(40000 / 2 / math.Pi), in whole km.
maxDistance == 6366

\* TOA(distance, hmf2): both arguments in km with 12 fractional bits,
\* distance > 0; the result is in degrees with 24 fractional bits.
TOA(dist, hm) ==
  LET earthAngleA  == Mul(Div(dist, 40000 * KmOne), 2 * Pi)
      horizontal   == Mul(earthRadius, Sin(earthAngleA \div 2))
      tangentvalue == (Pi - (earthAngleA \div 2)) \div 2
      \* horizontal / (sin / cos), evaluated as (horizontal * cos) / sin
      vertical     == Div(Mul(horizontal, Cos(tangentvalue)), Sin(tangentvalue))
      takeOffAngle == Atan(vertical + hm, horizontal) - (earthAngleA \div 2)
  IN  IF takeOffAngle >= 0 THEN Mul(takeOffAngle, DegPerRad)
      ELSE 0 - Mul(0 - takeOffAngle, DegPerRad)

(***************************************************************************)
(* Package variables.                                                      *)
(***************************************************************************)
DefaultDMUF == 3000

DefaultUrsiCode == "JR055"

\* fmt.Sprintf("%.0f", km): km (12 fractional bits, km >= 0) rounded to the
\* nearest integer, ties to even; the decimal string is modelled by its value.
Sprintf0f(km) ==
  LET q == km \div KmOne
      r == km % KmOne
  IN  IF 2 * r > KmOne \/ (2 * r = KmOne /\ q % 2 = 1) THEN q + 1 ELSE q

(***************************************************************************)
(* Text of a response: chunks, lines, string functions.                    *)
(***************************************************************************)
TS1 == "2023-01-18T19:00:00.000Z"
TS2 == "2023-01-18T19:15:00.000Z"
TS3 == "2023-01-18T19:30:00.000Z"

IsSpace(c) == c = " "

HasPrefixSemicolon(line) == Len(line) > 0 /\ line[1] = ";"

\* strings.HasPrefix(s.Text(), "#")
HasPrefixHash(line) == Len(line) > 0 /\ line[1] = "#"

\* strings.HasPrefix(s.Text(), "ERROR: ")
HasPrefixError(line) == Len(line) >= 2 /\ line[1] = "ERROR:" /\ IsSpace(line[2])

RECURSIVE TrimLeft(_)
TrimLeft(line) ==
  IF line # <<>> /\ IsSpace(Head(line)) THEN TrimLeft(Tail(line)) ELSE line

RECURSIVE TrimRight(_)
TrimRight(line) ==
  IF line # <<>> /\ IsSpace(line[Len(line)])
  THEN TrimRight(SubSeq(line, 1, Len(line) - 1)) ELSE line

\* strings.TrimSpace
TrimSpace(line) == TrimRight(TrimLeft(line))

\* strings.Cut(s.Text(), "ERROR: ") on a line that has this prefix: the text
\* after the first occurrence of the separator.
CutError(line) == SubSeq(line, 3, Len(line))

\* strings.Fields: the maximal runs of non-space chunks, each run one field.
RECURSIVE FieldsFrom(_, _, _)
FieldsFrom(line, cur, acc) ==
  IF line = <<>> THEN (IF cur = <<>> THEN acc ELSE Append(acc, cur))
  ELSE IF IsSpace(Head(line))
       THEN FieldsFrom(Tail(line), <<>>, IF cur = <<>> THEN acc ELSE Append(acc, cur))
       ELSE FieldsFrom(Tail(line), Append(cur, Head(line)), acc)

Fields(line) == FieldsFrom(line, <<>>, <<>>)

\* time.Parse(GiroTimeFormatOut, field): the instant in minutes of the day,
\* or a failure for text that is not in the layout.
TimeTable == (TS1 :> 1140) @@ (TS2 :> 1155) @@ (TS3 :> 1170)

ParseTime(field) ==
  IF Len(field) = 1 /\ field[1] \in DOMAIN TimeTable
  THEN [ok |-> TRUE, t |-> TimeTable[field[1]]]
  ELSE [ok |-> FALSE, t |-> 0]

\* fmt.Sscanf(field, "%f", &v): the value with 12 fractional bits, or a failure.
ValueTable == ("267.4" :> 1095270) @@ ("10.0" :> 40960) @@ ("9.9" :> 40550)

Sscanf(field) ==
  IF Len(field) = 1 /\ field[1] \in DOMAIN ValueTable
  THEN [ok |-> TRUE, v |-> ValueTable[field[1]]]
  ELSE [ok |-> FALSE, v |-> 0]

(***************************************************************************)
(* Errors and GiroData.                                                    *)
(***************************************************************************)
NoErr == [kind |-> "nil", msg |-> <<>>]

\* errors.New / fmt.Errorf / the error of a library call, with its message.
ErrorOf(kind, msg) == [kind |-> kind, msg |-> msg]

GiroData(t, parameter, v) == [Time |-> t, Parameter |-> parameter, Value |-> v]

ReverseGiroDataNoop(s) == s

\* ReverseGiroData reverses a GiroData slice.
ReverseGiroData(s) == [i \in 1..Len(s) |-> s[Len(s) + 1 - i]]

(***************************************************************************)
(* GetGiroData: the body of the scanner loop for one line, and the loop.   *)
(***************************************************************************)
ErrorLineReturnEmpty(line, acc) ==
  [gds |-> <<>>, err |-> ErrorOf("service", TrimSpace(CutError(line))), ret |-> TRUE]

\* return gds, errors.New(strings.TrimSpace(str)) at an ERROR line.
ErrorLineReturn(line, acc) ==
  [gds |-> acc, err |-> ErrorOf("service", TrimSpace(CutError(line))), ret |-> TRUE]

ParseFailureEmpty(acc, kind, field) ==
  [gds |-> <<>>, err |-> ErrorOf(kind, field), ret |-> TRUE]

\* return gds, err after time.Parse or fmt.Sscanf failed on a field.
ParseFailure(acc, kind, field) ==
  [gds |-> acc, err |-> ErrorOf(kind, field), ret |-> TRUE]

\* One iteration of "for s.Scan()": ret tells whether the function returns.
ScanLine(line, acc, parameter) ==
  IF HasPrefixHash(line) \/ TrimSpace(line) = <<>>
  THEN [gds |-> acc, err |-> NoErr, ret |-> FALSE]
  ELSE IF HasPrefixError(line)
  THEN ErrorLineReturn(line, acc)
  ELSE LET fields == Fields(line) IN
    IF Len(fields) < 3
    THEN [gds |-> acc, err |-> NoErr, ret |-> FALSE]
    ELSE LET t == ParseTime(fields[1])
             v == Sscanf(fields[3])
         IN  IF ~t.ok
             THEN ParseFailure(acc, "time.Parse", fields[1])
             ELSE IF ~v.ok
             THEN ParseFailure(acc, "Sscanf", fields[3])
             ELSE [gds |-> Append(acc, GiroData(t.t, parameter, v.v)),
                   err |-> NoErr, ret |-> FALSE]

\* The scanner loop and what follows it.
RECURSIVE ScanLoop(_, _, _)
ScanLoop(lines, acc, parameter) ==
  IF lines = <<>>
  THEN [gds |-> ReverseGiroData(acc), err |-> NoErr]
  ELSE LET r == ScanLine(Head(lines), acc, parameter)
       IN  IF r.ret THEN [gds |-> r.gds, err |-> r.err]
           ELSE ScanLoop(Tail(lines), r.gds, parameter)

NoReq == [ursiCode |-> "", charName |-> "", DMUF |-> 0]

\* The query parameters of the request (fromDate and toDate left out).
Values(parameter, ursiCode) ==
  [ursiCode |-> ursiCode, charName |-> parameter, DMUF |-> DefaultDMUF]

\* client.Do(req): st = 0 stands for a call that returned an error (no
\* response); any other st is the status code of the response received.
DoFails(st) == st = 0

\* GetGiroData(parameter, ursiCode, from, to) for a transport outcome st and
\* a response body b: the request sent, the results and whether the scanner
\* loop ran on the body.
GetGiroDataCall(parameter, ursiCode, st, b) ==
  IF DoFails(st)
  THEN [req |-> Values(parameter, ursiCode), gds |-> <<>>,
        err |-> ErrorOf("transport", <<>>), decoded |-> FALSE]
  ELSE LET r == ScanLoop(b, <<>>, parameter)
       IN  [req |-> Values(parameter, ursiCode), gds |-> r.gds,
            err |-> r.err, decoded |-> TRUE]

(***************************************************************************)
(* Inputs of the operations.                                               *)
(***************************************************************************)
MaxLines == 3

CommentLine == <<"#", " ", "Time", " ", "CS", " ", "hmF2">>
ErrorLine   == <<"ERROR:", " ", "station", " ", "not", " ", "found", " ">>
DataLine1   == <<TS1, " ", "100", " ", "267.4">>
DataLine2   == <<TS2, " ", "100", " ", "10.0">>
DataLine3   == <<TS3, " ", "100", " ", "9.9">>
ShortLine   == <<TS1, " ", "100">>
BadTimeLine == <<"2023/01/18", " ", "100", " ", "267.4">>
BadValueLine == <<TS2, " ", "100", " ", "---">>

IgnoredLines == {<<>>, <<" ">>, CommentLine}

LineMenu == IgnoredLines \cup {ErrorLine, DataLine1, DataLine2, DataLine3,
                               ShortLine, BadTimeLine, BadValueLine}

Bodies == UNION {[1..n -> LineMenu] : n \in 0..MaxLines}

Parameters == {"hmF2", "foF2"}

\* 0: client.Do returned an error; otherwise the status of the response.
StatusCodes == {0, 200, 404}

\* The optional ursiCode argument of DistanceByTOA and LatestTOA.
UrsiArgs == {<<>>, <<"TR169">>}

\* km arguments of SetDistanceForMUF: 1500, 2500.5 and 2999.5.
MUFDistances == {1500 * KmOne, 2500 * KmOne + (KmOne \div 2),
                 2999 * KmOne + (KmOne \div 2)}

\* Peak heights (km, 12 fractional bits): 267.4 and 10.0.
PeakHeights == {1095270, 40960}

\* Distances (km, 12 fractional bits) whose take-off angle is fed back to
\* Distance: 2, 2.5, 3, 100, 3000, maxDistance - 2, maxDistance - 1 and
\* maxDistance - 0.5.
RoundTripDistances ==
  {2 * KmOne, 2 * KmOne + (KmOne \div 2), 3 * KmOne, 100 * KmOne, 3000 * KmOne,
   (maxDistance - 2) * KmOne, (maxDistance - 1) * KmOne,
   (maxDistance - 1) * KmOne + (KmOne \div 2)}

\* Take-off angles (degrees, 24 fractional bits): 89, 95 and -20.
FixedAngles == {89 * FxOne, 95 * FxOne, 0 - 20 * FxOne}

\* toa arguments of DistanceByTOA and distance arguments of LatestTOA.
LatestAngles == {87 * FxOne}

LatestDistances == {100 * KmOne}

(***************************************************************************)
(* State machine.                                                          *)
(***************************************************************************)
NoOut == [val |-> 0, err |-> NoErr]

\* The answers of the service: no response at all (status 0, a transport
\* failure) or a status code with a body.
Responses ==
  {[status |-> 0, body |-> <<>>]} \cup
  [status : StatusCodes \ {0}, body : Bodies]

Idle ==
  /\ DMUF = DefaultDMUF
  /\ op = "init"
  /\ req = NoReq
  /\ gds = <<>>
  /\ err = NoErr
  /\ decoded = FALSE
  /\ toa = 0
  /\ hmf2 = 0
  /\ distance = 0
  /\ pc = "idle"
  /\ out = NoOut

\* The package as loaded, in front of a service with some answer.
Init == Idle /\ resp \in Responses

\* The package as loaded; the geometry functions use no service.
InitGeo == Idle /\ resp = [status |-> 0, body |-> <<>>]

\* The variables that hold the last call's arguments and results are reset by
\* every call; these are the values of the ones a call does not use.
NoFetch ==
  /\ req' = NoReq
  /\ gds' = <<>>
  /\ err' = NoErr
  /\ decoded' = FALSE

NoScan ==
  /\ toa' = 0
  /\ hmf2' = 0
  /\ distance' = 0

\* The results of GetGiroDataCall stored.
Fetched(r) ==
  /\ req' = r.req
  /\ gds' = r.gds
  /\ err' = r.err
  /\ decoded' = r.decoded

SetDistanceForMUF(km) ==
  /\ pc = "idle"
  /\ DMUF' = Sprintf0f(km)
  /\ op' = "SetDistanceForMUF"
  /\ NoFetch
  /\ NoScan
  /\ out' = NoOut
  /\ UNCHANGED <<resp, pc>>

GetGiroData(parameter, ursiCode) ==
  /\ pc = "idle"
  /\ op' = "GetGiroData"
  /\ Fetched(GetGiroDataCall(parameter, ursiCode, resp.status, resp.body))
  /\ NoScan
  /\ out' = NoOut
  /\ UNCHANGED <<DMUF, resp, pc>>

InvalidHmF2AtMost(v) == v <= 10 * KmOne

\* The sanity check of the latest hmF2 value: TRUE when it is rejected.
InvalidHmF2(v) == v < 10 * KmOne

Digisonde(ursiCode) == IF Len(ursiCode) > 0 THEN ursiCode[1] ELSE DefaultUrsiCode

\* DistanceByTOA up to its call of Distance (whose loop is DistanceLoop).
DistanceByTOA(t, ursiCode) ==
  LET digisonde == Digisonde(ursiCode)
      r == GetGiroDataCall("hmF2", digisonde, resp.status, resp.body)
  IN  /\ pc = "idle"
      /\ op' = "DistanceByTOA"
      /\ Fetched(r)
      /\ IF r.err # NoErr
         THEN /\ out' = [val |-> 0, err |-> r.err]
              /\ NoScan
              /\ UNCHANGED pc
         ELSE IF Len(r.gds) = 0
         THEN /\ out' = [val |-> 0, err |-> ErrorOf("no data", <<digisonde>>)]
              /\ NoScan
              /\ UNCHANGED pc
         ELSE IF InvalidHmF2(r.gds[1].Value)
         THEN /\ out' = [val |-> 0, err |-> ErrorOf("invalid value", <<digisonde>>)]
              /\ NoScan
              /\ UNCHANGED pc
         ELSE /\ pc' = "Distance"
              /\ toa' = t
              /\ hmf2' = r.gds[1].Value
              /\ distance' = KmOne
              /\ out' = NoOut
      /\ UNCHANGED <<DMUF, resp>>

LatestTOA(dist, ursiCode) ==
  LET digisonde == Digisonde(ursiCode)
      r == GetGiroDataCall("hmF2", digisonde, resp.status, resp.body)
  IN  /\ pc = "idle"
      /\ op' = "LatestTOA"
      /\ Fetched(r)
      /\ IF r.err # NoErr
         THEN /\ out' = [val |-> 0, err |-> r.err]
              /\ NoScan
         ELSE IF Len(r.gds) = 0
         THEN /\ out' = [val |-> 0, err |-> ErrorOf("no data", <<digisonde>>)]
              /\ NoScan
         ELSE IF InvalidHmF2(r.gds[1].Value)
         THEN /\ out' = [val |-> 0, err |-> ErrorOf("invalid value", <<digisonde>>)]
              /\ NoScan
         ELSE /\ out' = [val |-> TOA(dist, r.gds[1].Value), err |-> NoErr]
              /\ toa' = 0
              /\ hmf2' = r.gds[1].Value
              /\ distance' = dist
      /\ UNCHANGED <<DMUF, resp, pc>>

\* Distance(toa, hmf2) called directly: entry of the function.
CallDistance(t, hm) ==
  /\ pc = "idle"
  /\ op' = "Distance"
  /\ NoFetch
  /\ pc' = "Distance"
  /\ toa' = t
  /\ hmf2' = hm
  /\ distance' = KmOne
  /\ out' = NoOut
  /\ UNCHANGED <<DMUF, resp>>

DistanceLoopNoStepBack ==
  /\ pc = "Distance"
  /\ IF distance < maxDistance * KmOne
     THEN IF TOA(distance, hmf2) < toa
          THEN /\ out' = [val |-> distance, err |-> NoErr]
               /\ pc' = "idle"
               /\ UNCHANGED distance
          ELSE /\ distance' = distance + KmOne
               /\ UNCHANGED <<out, pc>>
     ELSE /\ out' = [val |-> distance, err |-> NoErr]
          /\ pc' = "idle"
          /\ UNCHANGED distance
  /\ UNCHANGED <<DMUF, resp, op, req, gds, err, decoded, toa, hmf2>>

DistanceLoopOvershoot ==
  /\ pc = "Distance"
  /\ IF distance < maxDistance * KmOne
     THEN IF TOA(distance, hmf2) > toa
          THEN /\ out' = [val |-> distance - KmOne, err |-> NoErr]
               /\ pc' = "idle"
               /\ UNCHANGED distance
          ELSE /\ distance' = distance + KmOne
               /\ UNCHANGED <<out, pc>>
     ELSE /\ out' = [val |-> distance, err |-> NoErr]
          /\ pc' = "idle"
          /\ UNCHANGED distance
  /\ UNCHANGED <<DMUF, resp, op, req, gds, err, decoded, toa, hmf2>>

\* One test of the loop condition of Distance, with the loop body or the
\* return that follows it.
DistanceLoop ==
  /\ pc = "Distance"
  /\ IF distance < maxDistance * KmOne
     THEN IF TOA(distance, hmf2) < toa
          THEN /\ out' = [val |-> distance - KmOne, err |-> NoErr]
               /\ pc' = "idle"
               /\ UNCHANGED distance
          ELSE /\ distance' = distance + KmOne
               /\ UNCHANGED <<out, pc>>
     ELSE /\ out' = [val |-> distance, err |-> NoErr]
          /\ pc' = "idle"
          /\ UNCHANGED distance
  /\ UNCHANGED <<DMUF, resp, op, req, gds, err, decoded, toa, hmf2>>

\* TOA(distance, hmf2) called directly.
CallTOA(dist, hm) ==
  /\ pc = "idle"
  /\ op' = "TOA"
  /\ NoFetch
  /\ toa' = 0
  /\ hmf2' = hm
  /\ distance' = dist
  /\ out' = [val |-> TOA(dist, hm), err |-> NoErr]
  /\ UNCHANGED <<DMUF, resp, pc>>

DistanceAngles == FixedAngles \cup {TOA(d, h) : d \in RoundTripDistances, h \in PeakHeights}

\* The decoder and the MUF distance setting.
Next ==
  \/ \E km \in MUFDistances : SetDistanceForMUF(km)
  \/ \E p \in Parameters : GetGiroData(p, DefaultUrsiCode)

Spec == Init /\ [][Next]_vars

\* The latest-hmF2 helpers.
NextLatest ==
  \/ \E t \in LatestAngles, u \in UrsiArgs : DistanceByTOA(t, u)
  \/ \E d \in LatestDistances, u \in UrsiArgs : LatestTOA(d, u)
  \/ DistanceLoop

SpecLatest == Init /\ [][NextLatest]_vars

\* The geometry.
NextGeo ==
  \/ \E t \in DistanceAngles, h \in PeakHeights : CallDistance(t, h)
  \/ \E d \in RoundTripDistances, h \in PeakHeights : CallTOA(d, h)
  \/ DistanceLoop

SpecGeo == InitGeo /\ [][NextGeo]_vars

TypeOK ==
  /\ pc \in {"idle", "Distance"}
  /\ decoded \in BOOLEAN
  /\ Len(gds) <= MaxLines

(***************************************************************************)
(* Vocabulary of the properties, stated on the text of the response.       *)
(***************************************************************************)
Is2xx(st) == st \in 200..299

\* A blank line or a comment line.
Ignored(line) == TrimSpace(line) = <<>> \/ (line # <<>> /\ Head(line) = "#")

\* A data line: neither blank nor a comment nor an ERROR line, with at least
\* 3 fields.
IsDataLine(line) ==
  ~Ignored(line) /\ ~HasPrefixError(line) /\ Len(Fields(line)) >= 3

\* A data line whose field 0 is no timestamp or whose field 2 is no number.
Malformed(line) ==
  IsDataLine(line) /\ (~ParseTime(Fields(line)[1]).ok \/ ~Sscanf(Fields(line)[3]).ok)

WellFormed(line) == IsDataLine(line) /\ ~Malformed(line)

\* Index of the first ERROR line or malformed data line of b; 0 when b has none.
StopIndex(b) ==
  LET stops == {i \in 1..Len(b) : HasPrefixError(b[i]) \/ Malformed(b[i])}
  IN  IF stops = {} THEN 0 ELSE CHOOSE i \in stops : \A j \in stops : i <= j

\* The measurements of the well-formed data lines of b, in wire order.
Measured(b, parameter) ==
  LET good == SelectSeq(b, WellFormed)
  IN  [i \in 1..Len(good) |->
         [Time |-> TimeTable[Fields(good[i])[1][1]], Parameter |-> parameter,
          Value |-> ValueTable[Fields(good[i])[3][1]]]]

Before(b, k) == SubSeq(b, 1, k - 1)

\* The last call fetched a series and the service answered with status 2xx.
FetchedOK == op = "GetGiroData" /\ Is2xx(resp.status)

StationNotFound == <<"station", " ", "not", " ", "found">>

C2_NormalEndReversed ==
  (FetchedOK /\ StopIndex(resp.body) = 0) =>
     LET m == Measured(resp.body, req.charName)
         n == Len(SelectSeq(resp.body, IsDataLine))
     IN  /\ err = NoErr
         /\ Len(gds) = n
         /\ Len(m) = n
         /\ \A j \in 1..n : gds[n + 1 - j] = m[j]

\* C2 witness: three data lines with ascending timestamps, returned reversed.
C2_Witness ==
  /\ FetchedOK
  /\ resp.body = <<DataLine1, DataLine2, DataLine3>>
  /\ req.charName = "foF2"
  /\ err = NoErr
  /\ gds[1] = [Time |-> 1170, Parameter |-> "foF2", Value |-> 40550]
  /\ gds[3] = [Time |-> 1140, Parameter |-> "foF2", Value |-> 1095270]

\* C4: at a data line whose timestamp or value does not parse decoding stops
\* with the parser's error, and the series returned with it holds exactly the
\* measurements of the data lines before that line (in wire order).
C4_MalformedKeepsPartial ==
  LET k == StopIndex(resp.body) IN
  (FetchedOK /\ k > 0 /\ Malformed(resp.body[k])) =>
     /\ err.kind = (IF ParseTime(Fields(resp.body[k])[1]).ok THEN "Sscanf" ELSE "time.Parse")
     /\ gds = Measured(Before(resp.body, k), req.charName)

\* C4 witness: two data lines, then a line whose value is "---".
C4_Witness ==
  /\ FetchedOK
  /\ resp.body = <<DataLine1, DataLine2, BadValueLine>>
  /\ err = [kind |-> "Sscanf", msg |-> <<"---">>]
  /\ Len(gds) = 2 /\ gds[1].Time = 1140 /\ gds[2].Time = 1155

\* The well-formed data lines of b carry strictly ascending timestamps.
WireAscending(b) ==
  LET m == Measured(b, "") IN
  \A i, j \in 1..Len(m) : i < j => m[i].Time < m[j].Time

\* C5: for a stream in ascending order, every non-empty series returned, with
\* or without an error, has its most recent sample at index 0.
C5_MostRecentFirst ==
  (FetchedOK /\ WireAscending(resp.body) /\ gds # <<>>) =>
     \A i \in 1..Len(gds) : gds[1].Time >= gds[i].Time

\* C6: a transport call that fails, a non-2xx status included, gives a
\* transport error and the scanner loop does not run; it runs only after a
\* 2xx response.
C6_NoDecodeOnFailedTransport ==
  (op = "GetGiroData") =>
     /\ ~Is2xx(resp.status) => (err.kind = "transport" /\ ~decoded)
     /\ decoded => Is2xx(resp.status)

\* C7: the DMUF query parameter of the request equals the configured
\* reference distance (package variable DMUF).
C7_RequestCarriesConfiguredDMUF ==
  (op = "GetGiroData") => req.DMUF = DMUF

InsertAt(b, i, line) == SubSeq(b, 1, i) \o <<line>> \o SubSeq(b, i + 1, Len(b))

NotIgnored(line) == ~Ignored(line)

\* C9: inserting a blank or comment line anywhere in the stream, or removing
\* all of them, leaves the series and the error of GetGiroData unchanged.
C9_IgnoredLinesChangeNothing ==
  (op = "GetGiroData" /\ ~DoFails(resp.status)) =>
     /\ \A i \in 0..Len(resp.body), c \in IgnoredLines :
          LET r == GetGiroDataCall(req.charName, req.ursiCode, resp.status,
                                   InsertAt(resp.body, i, c))
          IN  r.gds = gds /\ r.err = err
     /\ LET r == GetGiroDataCall(req.charName, req.ursiCode, resp.status,
                                 SelectSeq(resp.body, NotIgnored))
        IN  r.gds = gds /\ r.err = err

\* C9 witness: a comment line, a data line and a blank line give one measurement.
C9_Witness ==
  /\ FetchedOK
  /\ resp.body = <<CommentLine, DataLine1, <<" ">>>>
  /\ err = NoErr
  /\ Len(gds) = 1 /\ gds[1].Time = 1140

(***************************************************************************)
(* Properties of the latest-hmF2 helpers and of the geometry.              *)
(***************************************************************************)
Ten == 10 * KmOne

\* The last call was DistanceByTOA or LatestTOA and its fetch gave no error.
LatestFetched == op \in {"DistanceByTOA", "LatestTOA"} /\ err = NoErr

\* The latest sample's value went on to Distance or TOA.
PassedOn ==
  /\ gds # <<>>
  /\ hmf2 = gds[1].Value
  /\ out.err = NoErr
  /\ op = "LatestTOA" => out.val = TOA(distance, gds[1].Value)

TOATable ==
  [h \in PeakHeights |-> [d \in 1..maxDistance |-> TOA(d * KmOne, h)]]

\* The peak heights for which TOA is strictly decreasing over the scan.
DecreasingHeights ==
  {h \in PeakHeights : \A d \in 1..(maxDistance - 1) : TOATable[h][d] > TOATable[h][d + 1]}

Returned == op = "Distance" /\ pc = "idle"

\* C8: Distance returns d - 1 for the smallest d of 1 .. maxDistance - 1 with
\* TOA(d, hmf2) < toa, and maxDistance when there is none; it never fails and
\* its result is a whole number of km in 0 .. maxDistance.
C8_DistanceScan ==
  Returned =>
     LET under == {d \in 1..(maxDistance - 1) : TOATable[hmf2][d] < toa}
     IN  /\ out.err = NoErr
         /\ out.val \in {d * KmOne : d \in 0..maxDistance}
         /\ IF under = {} THEN out.val = maxDistance * KmOne
            ELSE \E d \in under : /\ \A e \in under : d <= e
                                  /\ out.val = (d - 1) * KmOne

\* C8 witness: an angle of -20 degrees is never undershot for hmF2 = 267.4,
\* and Distance has returned the bound.
C8_Witness ==
  /\ Returned
  /\ toa = 0 - 20 * FxOne /\ hmf2 = 1095270
  /\ out.val = maxDistance * KmOne

\* C10: for a peak height with strictly decreasing TOA and a distance d with
\* 1 < d < maxDistance, Distance(TOA(d, hmf2), hmf2) is within 1 km of d.
C10_RoundTrip ==
  (Returned /\ hmf2 \in DecreasingHeights) =>
     \A d \in RoundTripDistances :
        (KmOne < d /\ d < maxDistance * KmOne /\ toa = TOA(d, hmf2)) =>
           (out.val - d <= KmOne /\ d - out.val <= KmOne)

\* C10 witness: the round trip of d = maxDistance - 1 for hmF2 = 267.4 has
\* returned maxDistance.
C10_Witness ==
  /\ Returned
  /\ hmf2 = 1095270 /\ hmf2 \in DecreasingHeights
  /\ toa = TOA((maxDistance - 1) * KmOne, hmf2)
  /\ out.val = maxDistance * KmOne

====
